---- MODULE Spec2Model ----
(***************************************************************************)
(* The strategy race of scrapper.py: SinglePageScraper.scrape_website      *)
(* drives the StrategySet (self.methods) either concurrently, through a    *)
(* ThreadPoolExecutor of min(n, 8) workers, or sequentially; every         *)
(* strategy is invoked through RetryMechanism.retry_with_backoff and its   *)
(* result is judged by ContentValidator.is_valid_content.                  *)
(*                                                                         *)
(* Time is counted in ticks of 1/JitterSteps second, so that the jitter    *)
(* random.uniform(0, 1) is one of 0 .. JitterSteps ticks.                  *)
(***************************************************************************)
EXTENDS Integers, Sequences, FiniteSets, TLC

\* ---- bounds of the model
NumStrategies == 2
RaceMaxRetries == 1
RetryMaxRetries == 3
JitterSteps == 1
MaxTextLen == 502
MaxPad == 1

\* ---- program constants
PoolCap == 8
BaseDelay == 1
MinLength == 100
LongLength == 500
NumStandardMethods == 10
NumAggressiveMethods == 13

VARIABLES
    url,             \* scrape_website's argument url, the Target
    headers,         \* per strategy: the units that rewrote its User-Agent header
    concurrent,      \* scrape_website's flag: TRUE = _scrape_concurrent
    save_to_file,    \* TRUE when a file name was passed
    max_retries,     \* RetryMechanism.max_retries
    methods,         \* the StrategySet: sequence of strategy behaviours
    cpc,             \* position of the coordinator (the calling thread)
    upc,             \* position of the unit of work of each strategy
    attempt,         \* retry_with_backoff's loop variable, per invocation
    calls,           \* number of invocations of func made by each retry loop
    delay,           \* retry_with_backoff's local delay (ticks), 0 outside the loop
    ret,             \* what retry_with_backoff handed to its caller
    success_result,  \* the shared outcome slot {'content', 'method_name'}
    success_lock,    \* holder of threading.Lock, 0 = free
    yielded,         \* number of futures as_completed has yielded
    diag,            \* the coordinator's diagnostic lines, per strategy
    saved,           \* contents handed to FileManager.save_content
    returned,        \* the value scrape_website returned
    late,            \* history: attempts and sleeps a unit began after the commit
    browser,         \* browser processes a strategy's attempts opened and did not quit
    written          \* contents FileManager.save_content wrote to the file

vars == <<url, headers, concurrent, save_to_file, max_retries, methods, cpc, upc, attempt,
          calls, delay, ret, success_result, success_lock, yielded, diag,
          saved, returned, late, browser, written>>

\* ---- values
None == [kind |-> "None", src |-> 0, len |-> 0, pad |-> 0, marker |-> FALSE]

\* a text of len characters between pad characters of surrounding whitespace
Text(s, l, p, m) == [kind |-> "Text", src |-> s, len |-> l, pad |-> p, marker |-> m]

\* Python truthiness of a str-or-None
Truthy(c) == c.kind = "Text" /\ c.len + c.pad > 0

is_valid_content_MarkerFirst(content) ==
    IF ~Truthy(content) THEN FALSE
    ELSE IF content.marker THEN TRUE
    ELSE IF content.len < MinLength THEN FALSE
    ELSE IF content.len > LongLength THEN TRUE
    ELSE FALSE

is_valid_content_NoLongRule(content) ==
    IF ~Truthy(content) THEN FALSE
    ELSE IF content.len < MinLength THEN FALSE
    ELSE IF content.marker THEN TRUE
    ELSE FALSE

is_valid_content_ShortAccepted(content) ==
    IF ~Truthy(content) THEN FALSE
    ELSE IF content.len < MinLength THEN TRUE
    ELSE IF content.marker THEN TRUE
    ELSE IF content.len > LongLength THEN TRUE
    ELSE FALSE

is_valid_content_AtLeastMin(content) ==
    IF ~Truthy(content) THEN FALSE
    ELSE IF content.len < MinLength THEN FALSE
    ELSE IF content.marker THEN TRUE
    ELSE IF content.len > LongLength THEN TRUE
    ELSE TRUE

is_valid_content(content) ==
    IF ~Truthy(content) THEN FALSE
    ELSE IF content.len < MinLength THEN FALSE
    ELSE IF content.marker THEN TRUE
    ELSE IF content.len > LongLength THEN TRUE
    ELSE FALSE

\* ---- page texts as the validator sees them
\* html_indicators of is_valid_content, as sequences of characters
html_indicators ==
    { <<"<", "h", "t", "m", "l">>, <<"<", "b", "o", "d", "y">>,
      <<"<", "d", "i", "v">>, <<"<", "p">>, <<"<", "s", "p", "a", "n">> }

\* str.lower() on the characters the fragments below are made of
LowerChar(ch) ==
    CASE ch = "P" -> "p" [] ch = "D" -> "d" [] ch = "I" -> "i" [] ch = "V" -> "v"
      [] ch = "H" -> "h" [] ch = "T" -> "t" [] ch = "M" -> "m" [] ch = "L" -> "l"
      [] OTHER -> ch

lower(str) == [i \in DOMAIN str |-> LowerChar(str[i])]

\* sub in str
Contains(str, sub) ==
    \E i \in 1..(Len(str) - Len(sub) + 1) : SubSeq(str, i, i + Len(sub) - 1) = sub

\* any(indicator in content.lower() for indicator in html_indicators)
HasIndicator(str) == \E ind \in html_indicators : Contains(lower(str), ind)

\* the fragments a page text may begin with; the rest of it is plain letters
Fragments ==
    { <<>>, <<"<", "p">>, <<"<", "P">>, <<"<", "p", "r", "e">>, <<"<", "a">>,
      <<"p", ">">>, <<"<", "D", "I", "V">>, <<"<", "h", "t", "m", "l">>,
      <<"<", "H", "t", "m", "L">>, <<"<", "b", "o", "d", "y">>,
      <<"<", "s", "p", "a", "n">>, <<"<", "s", "p", "a">> }

\* the text of l characters that begins with fragment frag, between p
\* characters of whitespace, as strategy s returns it
Page(s, pg) == Text(s, pg.len, pg.pad, HasIndicator(pg.frag))

Pages ==
    {[frag |-> fr, len |-> l, pad |-> p] :
        fr \in Fragments, l \in 0..MaxTextLen, p \in 0..MaxPad}

N == Len(methods)
Units == 1..N

RECURSIVE Pow2(_)
Pow2(k) == IF k = 0 THEN 1 ELSE 2 * Pow2(k - 1)

Min(a, b) == IF a < b THEN a ELSE b

\* ---- the strategies
(***************************************************************************)
(* A strategy's behaviour: its transport fails on its first `fails`        *)
(* attempts and then ends as `final` says.  `catches` tells whether        *)
(* scrape() converts the failure into "return None", as every built-in     *)
(* strategy does, or lets it out to its caller, which the abstract         *)
(* ScrapingMethod.scrape allows and the callers' except clauses expect.    *)
(***************************************************************************)
Finals == {"valid", "invalid", "empty", "hang"}

Behaviours(mr) ==
    {[fails |-> 0, final |-> f, catches |-> TRUE] : f \in Finals}
    \cup {[fails |-> 1, final |-> "empty", catches |-> TRUE]}
    \cup {[fails |-> k, final |-> f, catches |-> FALSE] : k \in 1..mr, f \in Finals}
    \cup {[fails |-> mr + 1, final |-> "empty", catches |-> FALSE]}

\* the behaviours the races are checked with: working, stuck, rejected by the
\* validator, failing as the built-in strategies fail, raising once and then
\* working, raising on every attempt
RaceBehaviours(mr) ==
    {[fails |-> 0, final |-> f, catches |-> TRUE] : f \in {"valid", "invalid", "hang"}}
    \cup {[fails |-> 1, final |-> "empty", catches |-> TRUE],
          [fails |-> 1, final |-> "valid", catches |-> FALSE],
          [fails |-> mr + 1, final |-> "empty", catches |-> FALSE]}

\* what one invocation of func ends with
Return(c) == [kind |-> "return", val |-> c, cause |-> 0]
Raise(e)  == [kind |-> "raise", val |-> None, cause |-> e]
Hang      == [kind |-> "hang", val |-> None, cause |-> 0]

\* the page text a strategy gets when its transport works
PageText(s, final) ==
    IF final = "valid" THEN
        (IF s % 2 = 1 THEN Text(s, LongLength + 1, 0, FALSE)
                      ELSE Text(s, MinLength, 2, TRUE))
    ELSE IF final = "invalid" THEN Text(s, MinLength - 1, 0, TRUE)
    ELSE Text(s, 0, 0, FALSE)

\* the browser engine a strategy drives: "selenium" (SeleniumMethod,
\* SeleniumStealthMethod), "requests_html" (RequestsHTMLMethod), or none
Engine(b) == IF "engine" \in DOMAIN b THEN b.engine ELSE "http"

\* HTMLSession.render needs the calling thread's asyncio event loop, which
\* only the main thread has: in a pool thread it raises before any browser
\* is launched, and scrape's except clause returns None
RenderRefused(b) == Engine(b) = "requests_html" /\ concurrent

\* the browser processes one invocation of SeleniumMethod.scrape opens and
\* quits: driver is None until webdriver.Chrome() has returned, and the
\* finally clause quits a driver that is bound
selenium_browser(b) ==
    LET driver == IF b.breaks = "launch" THEN 0 ELSE 1 IN
    [opened |-> driver, quit |-> IF driver # 0 THEN 1 ELSE 0]

\* the same for RequestsHTMLMethod.scrape: response.html.render() launches
\* Chromium unless session.get failed before it; there is no session.close()
render_browser(b) ==
    [opened |-> IF RenderRefused(b) \/ b.breaks = "get" THEN 0 ELSE 1,
     quit |-> 0]

\* the browser processes invocation a of strategy s opens and quits
browser_effect(s, a) ==
    LET b == methods[s] IN
    IF Engine(b) = "selenium" THEN selenium_browser(b)
    ELSE IF Engine(b) = "requests_html" THEN render_browser(b)
    ELSE [opened |-> 0, quit |-> 0]

scrape_Raising(s, a) ==
    LET b == methods[s] IN
    IF b.final = "unavailable" THEN Raise(a + 1)
    ELSE IF RenderRefused(b) THEN Return(None)
    ELSE IF a < b.fails THEN (IF b.catches THEN Return(None) ELSE Raise(a + 1))
    ELSE IF b.final = "hang" THEN Hang
    ELSE IF b.final = "page" THEN Return(Page(s, b.page))
    ELSE Return(PageText(s, b.final))

\* method.scrape(url) on the a-th invocation (a = 0, 1, ...) of strategy s;
\* the failure of invocation a is identified by the cause a + 1; a strategy
\* whose optional library is missing returns None before any transport
scrape(s, a) ==
    LET b == methods[s] IN
    IF b.final = "unavailable" THEN Return(None)
    ELSE IF RenderRefused(b) THEN Return(None)
    ELSE IF a < b.fails THEN (IF b.catches THEN Return(None) ELSE Raise(a + 1))
    ELSE IF b.final = "hang" THEN Hang
    ELSE IF b.final = "page" THEN Return(Page(s, b.page))
    ELSE Return(PageText(s, b.final))

_scrape_with_method(s, a) == scrape(s, a)

\* the unit of work (the future, or the iteration of the sequential for
\* loop) number u is handed the u-th entry of self.methods, and its calls of
\* _scrape_with_method rewrite the User-Agent header of that strategy
future_to_method_First(u) == 1

future_to_method(u) == u

\* ---- URLValidator
\* a target is None or a string, a sequence of characters
NoTarget == [given |-> FALSE, text |-> <<>>]
Target(text) == [given |-> TRUE, text |-> text]

HTTP == <<"h", "t", "t", "p", ":", "/", "/">>
HTTPS == <<"h", "t", "t", "p", "s", ":", "/", "/">>

\* str.startswith
startswith(str, prefix) ==
    Len(str) >= Len(prefix) /\ SubSeq(str, 1, Len(prefix)) = prefix

\* str.strip() of blanks
RECURSIVE strip(_)
strip(str) ==
    IF str = <<>> THEN <<>>
    ELSE IF Head(str) = " " THEN strip(Tail(str))
    ELSE IF str[Len(str)] = " " THEN strip(SubSeq(str, 1, Len(str) - 1))
    ELSE str

\* the characters of str before the first one of "/", "?", "#"
RECURSIVE UpToDelimiter(_)
UpToDelimiter(str) ==
    IF str = <<>> \/ Head(str) \in {"/", "?", "#"} THEN <<>>
    ELSE <<Head(str)>> \o UpToDelimiter(Tail(str))

\* urlparse(url).netloc of a url that begins with http:// or https://; a
\* netloc with one square bracket and not the other makes urlparse raise
\* ValueError
urlparse(str) ==
    LET rest == IF startswith(str, HTTPS) THEN SubSeq(str, Len(HTTPS) + 1, Len(str))
                ELSE SubSeq(str, Len(HTTP) + 1, Len(str))
        netloc == UpToDelimiter(rest)
        open == \E i \in DOMAIN netloc : netloc[i] = "["
        close == \E i \in DOMAIN netloc : netloc[i] = "]"
    IN [netloc |-> netloc, raises |-> open # close]

\* validate_and_format_url(url): ok is FALSE where the code raises ValueError
validate_and_format_url(u) ==
    IF ~u.given \/ u.text = <<>> THEN [ok |-> FALSE, url |-> <<>>]
    ELSE LET stripped == strip(u.text)
             formatted == IF startswith(stripped, HTTP) \/ startswith(stripped, HTTPS)
                          THEN stripped ELSE HTTPS \o stripped
             parsed == urlparse(formatted)
         IN IF parsed.raises \/ parsed.netloc = <<>>
            THEN [ok |-> FALSE, url |-> <<>>]
            ELSE [ok |-> TRUE, url |-> formatted]

\* the target of the races that are not about the target
DefaultTarget == Target(HTTPS \o <<"a">>)

\* the targets scrape_website is tried with
Targets ==
    {NoTarget}
    \cup {Target(pre \o body \o post) :
            pre \in {<<>>, <<" ">>, HTTP, HTTPS, <<"H", "T", "T", "P", ":", "/", "/">>},
            body \in {<<>>, <<"a">>, <<"/", "p">>, <<"a", "/", "p">>, <<"?", "q">>,
                      <<"#">>, <<"[", "a">>, <<"[", "a", "]">>},
            post \in {<<>>, <<" ">>}}

\* ---- construction
Fresh(S) == [s \in S |-> 0]

\* every strategy's headers as ScrapingMethod.__init__ sets them, rewritten
\* by no unit; scrape_website called with target u
InitWithTarget(u, c, f, mr, ms) ==
    /\ url = u
    /\ headers = [s \in 1..Len(ms) |-> {}]
    /\ concurrent = c
    /\ save_to_file = f
    /\ max_retries = mr
    /\ methods = ms
    /\ cpc = "idle"
    /\ upc = [s \in 1..Len(ms) |-> "new"]
    /\ attempt = Fresh(1..Len(ms))
    /\ calls = Fresh(1..Len(ms))
    /\ delay = Fresh(1..Len(ms))
    /\ ret = [s \in 1..Len(ms) |-> [kind |-> "none", val |-> None, cause |-> 0]]
    /\ success_result = [content |-> None, method_name |-> 0]
    /\ success_lock = 0
    /\ yielded = 0
    /\ diag = [s \in 1..Len(ms) |-> <<>>]
    /\ saved = <<>>
    /\ returned = None
    /\ late = Fresh(1..Len(ms))
    /\ browser = Fresh(1..Len(ms))
    /\ written = <<>>

InitWith(c, f, mr, ms) == InitWithTarget(DefaultTarget, c, f, mr, ms)

Init ==
    \E c \in BOOLEAN, f \in BOOLEAN :
    \E ms \in [1..NumStrategies -> RaceBehaviours(RaceMaxRetries)] :
        InitWith(c, f, RaceMaxRetries, ms)

\* ---- RetryMechanism
(***************************************************************************)
(* One pass of retry_with_backoff's loop body for strategy s, func having  *)
(* ended with o and random.uniform(0, 1) having drawn j ticks: the value   *)
(* is returned, the failure of the last attempt is raised, or the loop     *)
(* sleeps base_delay * 2^attempt + jitter.                                 *)
(***************************************************************************)
\* retry_with_backoff whose delay does not grow with the attempt
retry_with_backoff_Flat(s, o, j) ==
    IF o.kind = "return"
    THEN [kind |-> "return", val |-> o.val, cause |-> 0, delay |-> delay[s]]
    ELSE IF attempt[s] = max_retries
    THEN [kind |-> "raise", val |-> None, cause |-> o.cause, delay |-> delay[s]]
    ELSE [kind |-> "sleep", val |-> None, cause |-> 0,
          delay |-> BaseDelay * JitterSteps + j]

\* retry_with_backoff that leaves the loop after the last failure and falls
\* through to "return None"
retry_with_backoff_Swallow(s, o, j) ==
    IF o.kind = "return"
    THEN [kind |-> "return", val |-> o.val, cause |-> 0, delay |-> delay[s]]
    ELSE IF attempt[s] = max_retries
    THEN [kind |-> "return", val |-> None, cause |-> 0, delay |-> delay[s]]
    ELSE [kind |-> "sleep", val |-> None, cause |-> 0,
          delay |-> BaseDelay * Pow2(attempt[s]) * JitterSteps + j]

\* retry_with_backoff whose loop runs once more than range(max_retries + 1)
retry_with_backoff_OneMore(s, o, j) ==
    IF o.kind = "return"
    THEN [kind |-> "return", val |-> o.val, cause |-> 0, delay |-> delay[s]]
    ELSE IF attempt[s] = max_retries + 1
    THEN [kind |-> "raise", val |-> None, cause |-> o.cause, delay |-> delay[s]]
    ELSE [kind |-> "sleep", val |-> None, cause |-> 0,
          delay |-> BaseDelay * Pow2(attempt[s]) * JitterSteps + j]

retry_with_backoff_RetryNone(s, o, j) ==
    IF o.kind = "return" /\ (o.val # None \/ attempt[s] = max_retries)
    THEN [kind |-> "return", val |-> o.val, cause |-> 0, delay |-> delay[s]]
    ELSE IF attempt[s] = max_retries
    THEN [kind |-> "raise", val |-> None, cause |-> o.cause, delay |-> delay[s]]
    ELSE [kind |-> "sleep", val |-> None, cause |-> 0,
          delay |-> BaseDelay * Pow2(attempt[s]) * JitterSteps + j]

retry_with_backoff(s, o, j) ==
    IF o.kind = "return"
    THEN [kind |-> "return", val |-> o.val, cause |-> 0, delay |-> delay[s]]
    ELSE IF attempt[s] = max_retries
    THEN [kind |-> "raise", val |-> None, cause |-> o.cause, delay |-> delay[s]]
    ELSE [kind |-> "sleep", val |-> None, cause |-> 0,
          delay |-> BaseDelay * Pow2(attempt[s]) * JitterSteps + j]

Handed(r) == [kind |-> r.kind, val |-> r.val, cause |-> r.cause]

\* ---- the concurrent race: ThreadPoolExecutor
max_workers == Min(N, PoolCap)

Busy == {s \in Units : upc[s] \in {"running", "attempt", "sleep", "lock", "locked", "name"}}

Completed == {s \in Units : upc[s] \in {"done", "cancelled"}}

\* executor.submit for every method (all futures exist before as_completed)
Launch_Unvalidated ==
    /\ cpc = "idle"
    /\ concurrent
    /\ cpc' = "racing"
    /\ upc' = [s \in Units |-> "pending"]
    /\ UNCHANGED <<url, headers, concurrent, save_to_file, max_retries, methods, attempt, calls,
                   delay, ret, success_result, success_lock, yielded, diag,
                   saved, returned, late, browser, written>>

\* scrape_website with concurrent set: "return None" where the validator
\* raised ValueError, else executor.submit for every method
Launch ==
    /\ cpc = "idle"
    /\ concurrent
    /\ IF validate_and_format_url(url).ok
       THEN /\ cpc' = "racing"
            /\ upc' = [s \in Units |-> "pending"]
       ELSE /\ cpc' = "returned"
            /\ UNCHANGED upc
    /\ UNCHANGED <<url, headers, concurrent, save_to_file, max_retries, methods, attempt, calls,
                   delay, ret, success_result, success_lock, yielded, diag,
                   saved, returned, late, browser, written>>

\* WorkerTake of a pool with one thread per submitted task
WorkerTake_Uncapped(s) ==
    /\ upc[s] = "pending"
    /\ \A t \in Units : t < s => upc[t] # "pending"
    /\ upc' = [upc EXCEPT ![s] = "running"]
    /\ UNCHANGED <<url, headers, concurrent, save_to_file, max_retries, methods, cpc, attempt,
                   calls, delay, ret, success_result, success_lock, yielded,
                   diag, saved, returned, late, browser, written>>

\* a free worker thread takes the oldest pending work item off the queue
WorkerTake(s) ==
    /\ upc[s] = "pending"
    /\ \A t \in Units : t < s => upc[t] # "pending"
    /\ Cardinality(Busy) < max_workers
    /\ upc' = [upc EXCEPT ![s] = "running"]
    /\ UNCHANGED <<url, headers, concurrent, save_to_file, max_retries, methods, cpc, attempt,
                   calls, delay, ret, success_result, success_lock, yielded,
                   diag, saved, returned, late, browser, written>>

EarlyCheck_NoCheck(s) ==
    /\ upc[s] = "running"
    /\ upc' = [upc EXCEPT ![s] = "attempt"]
    /\ calls' = [calls EXCEPT ![s] = 1]
    /\ UNCHANGED <<url, headers, concurrent, save_to_file, max_retries, methods, cpc, attempt,
                   delay, ret, success_result, success_lock, yielded, diag,
                   saved, returned, late, browser, written>>

\* scrape_method_wrapper's first statement, then the first call of func
EarlyCheck(s) ==
    /\ upc[s] = "running"
    /\ IF Truthy(success_result.content)
       THEN /\ upc' = [upc EXCEPT ![s] = "done"]
            /\ UNCHANGED calls
       ELSE /\ upc' = [upc EXCEPT ![s] = "attempt"]
            /\ calls' = [calls EXCEPT ![s] = 1]
    /\ UNCHANGED <<url, headers, concurrent, save_to_file, max_retries, methods, cpc, attempt,
                   delay, ret, success_result, success_lock, yielded, diag,
                   saved, returned, late, browser, written>>

\* FileManager.save_content(content, filename, url): the file is written, or
\* the failure is printed and False returned; the runners ignore the result
save_content(content) ==
    /\ saved' = Append(saved, content)
    /\ \E ok \in BOOLEAN :
          written' = IF ok THEN Append(written, content) ELSE written

\* 1 once a winner has committed its content, 0 before
AfterCommit == IF Truthy(success_result.content) THEN 1 ELSE 0

\* WrapperContinue whose except clause prints nothing
WrapperContinue_Silent(s, r) ==
    /\ ret' = [ret EXCEPT ![s] = Handed(r)]
    /\ IF r.kind = "return" /\ is_valid_content(r.val)
       THEN /\ upc' = [upc EXCEPT ![s] = "lock"]
            /\ UNCHANGED diag
       ELSE /\ upc' = [upc EXCEPT ![s] = "done"]
            /\ diag' = IF r.kind = "raise" THEN diag
                       ELSE [diag EXCEPT ![s] = Append(diag[s],
                                [line |-> "invalid", cause |-> r.cause])]
    /\ UNCHANGED <<cpc, saved, returned, written>>

\* what scrape_method_wrapper does with retry_with_backoff's result r
WrapperContinue(s, r) ==
    /\ ret' = [ret EXCEPT ![s] = Handed(r)]
    /\ IF r.kind = "return" /\ is_valid_content(r.val)
       THEN /\ upc' = [upc EXCEPT ![s] = "lock"]
            /\ UNCHANGED diag
       ELSE /\ upc' = [upc EXCEPT ![s] = "done"]
            /\ diag' = [diag EXCEPT ![s] = Append(diag[s],
                           [line |-> IF r.kind = "raise" THEN "exception" ELSE "invalid",
                            cause |-> r.cause])]
    /\ UNCHANGED <<cpc, saved, returned, written>>

\* SequentialContinue without the try/except: a raised failure ends the run
SequentialContinue_Abort(s, r) ==
    /\ ret' = [ret EXCEPT ![s] = Handed(r)]
    /\ IF r.kind = "return" /\ is_valid_content(r.val)
       THEN /\ upc' = [upc EXCEPT ![s] = "done"]
            /\ IF save_to_file THEN save_content(r.val)
                               ELSE UNCHANGED <<saved, written>>
            /\ returned' = r.val
            /\ cpc' = "returned"
            /\ UNCHANGED <<diag, calls>>
       ELSE /\ diag' = [diag EXCEPT ![s] = Append(diag[s],
                           [line |-> IF r.kind = "raise" THEN "exception"
                                     ELSE IF Truthy(r.val) THEN "too_short"
                                     ELSE "no_content",
                            cause |-> r.cause])]
            /\ IF s < N /\ r.kind # "raise"
               THEN /\ upc' = [upc EXCEPT ![s] = "done", ![s + 1] = "attempt"]
                    /\ calls' = [calls EXCEPT ![s + 1] = 1]
                    /\ UNCHANGED <<cpc, returned>>
               ELSE /\ upc' = [upc EXCEPT ![s] = "done"]
                    /\ cpc' = "returned"
                    /\ returned' = None
                    /\ UNCHANGED calls
            /\ UNCHANGED <<saved, written>>

SequentialContinue_Stripped(s, r) ==
    /\ ret' = [ret EXCEPT ![s] = Handed(r)]
    /\ IF r.kind = "return" /\ is_valid_content(r.val)
       THEN /\ upc' = [upc EXCEPT ![s] = "done"]
            /\ IF save_to_file THEN save_content([r.val EXCEPT !.pad = 0])
                               ELSE UNCHANGED <<saved, written>>
            /\ returned' = [r.val EXCEPT !.pad = 0]
            /\ cpc' = "returned"
            /\ UNCHANGED <<diag, calls>>
       ELSE /\ diag' = [diag EXCEPT ![s] = Append(diag[s],
                           [line |-> IF r.kind = "raise" THEN "exception"
                                     ELSE IF Truthy(r.val) THEN "too_short"
                                     ELSE "no_content",
                            cause |-> r.cause])]
            /\ IF s < N
               THEN /\ upc' = [upc EXCEPT ![s] = "done", ![s + 1] = "attempt"]
                    /\ calls' = [calls EXCEPT ![s + 1] = 1]
                    /\ UNCHANGED <<cpc, returned>>
               ELSE /\ upc' = [upc EXCEPT ![s] = "done"]
                    /\ cpc' = "returned"
                    /\ returned' = None
                    /\ UNCHANGED calls
            /\ UNCHANGED <<saved, written>>

\* what _scrape_sequential does with retry_with_backoff's result r
SequentialContinue(s, r) ==
    /\ ret' = [ret EXCEPT ![s] = Handed(r)]
    /\ IF r.kind = "return" /\ is_valid_content(r.val)
       THEN /\ upc' = [upc EXCEPT ![s] = "done"]
            /\ IF save_to_file THEN save_content(r.val)
                               ELSE UNCHANGED <<saved, written>>
            /\ returned' = r.val
            /\ cpc' = "returned"
            /\ UNCHANGED <<diag, calls>>
       ELSE /\ diag' = [diag EXCEPT ![s] = Append(diag[s],
                           [line |-> IF r.kind = "raise" THEN "exception"
                                     ELSE IF Truthy(r.val) THEN "too_short"
                                     ELSE "no_content",
                            cause |-> r.cause])]
            /\ IF s < N
               THEN /\ upc' = [upc EXCEPT ![s] = "done", ![s + 1] = "attempt"]
                    /\ calls' = [calls EXCEPT ![s + 1] = 1]
                    /\ UNCHANGED <<cpc, returned>>
               ELSE /\ upc' = [upc EXCEPT ![s] = "done"]
                    /\ cpc' = "returned"
                    /\ returned' = None
                    /\ UNCHANGED calls
            /\ UNCHANGED <<saved, written>>

\* an invocation of func ends: retry_with_backoff sleeps, returns or raises,
\* and in the last two cases its caller goes on with the result
AttemptEnds(s) ==
    /\ upc[s] = "attempt"
    /\ LET o == _scrape_with_method(s, attempt[s]) IN
       /\ o.kind # "hang"
       /\ \E j \in 0..JitterSteps :
            LET r == retry_with_backoff(s, o, j) IN
            IF r.kind = "sleep"
            THEN /\ upc' = [upc EXCEPT ![s] = "sleep"]
                 /\ delay' = [delay EXCEPT ![s] = r.delay]
                 /\ late' = [late EXCEPT ![s] = late[s] + AfterCommit]
                 /\ UNCHANGED <<ret, diag, cpc, saved, returned, calls, written>>
            ELSE /\ delay' = [delay EXCEPT ![s] = 0]
                 /\ UNCHANGED late
                 /\ IF concurrent
                    THEN WrapperContinue(s, r) /\ UNCHANGED calls
                    ELSE SequentialContinue(s, r)
    /\ browser' = [browser EXCEPT ![s] = browser[s]
                      + browser_effect(s, attempt[s]).opened
                      - browser_effect(s, attempt[s]).quit]
    /\ headers' = [headers EXCEPT ![future_to_method(s)] = @ \cup {s}]
    /\ UNCHANGED <<url, concurrent, save_to_file, max_retries, methods, attempt,
                   success_result, success_lock, yielded>>

SleepEnds_Shared(s) ==
    /\ upc[s] = "sleep"
    /\ upc' = [upc EXCEPT ![s] = "attempt"]
    /\ attempt' = [t \in Units |-> attempt[t] + 1]
    /\ calls' = [calls EXCEPT ![s] = calls[s] + 1]
    /\ late' = [late EXCEPT ![s] = late[s] + AfterCommit]
    /\ UNCHANGED <<url, headers, concurrent, save_to_file, max_retries, methods, cpc, delay, ret,
                   success_result, success_lock, yielded, diag, saved, returned,
                   browser, written>>

\* time.sleep(delay) ends and the loop calls func again
SleepEnds(s) ==
    /\ upc[s] = "sleep"
    /\ upc' = [upc EXCEPT ![s] = "attempt"]
    /\ attempt' = [attempt EXCEPT ![s] = attempt[s] + 1]
    /\ calls' = [calls EXCEPT ![s] = calls[s] + 1]
    /\ late' = [late EXCEPT ![s] = late[s] + AfterCommit]
    /\ UNCHANGED <<url, headers, concurrent, save_to_file, max_retries, methods, cpc, delay, ret,
                   success_result, success_lock, yielded, diag, saved, returned,
                   browser, written>>

\* with success_lock:
Acquire(s) ==
    /\ upc[s] = "lock"
    /\ success_lock = 0
    /\ success_lock' = s
    /\ upc' = [upc EXCEPT ![s] = "locked"]
    /\ UNCHANGED <<url, headers, concurrent, save_to_file, max_retries, methods, cpc, attempt,
                   calls, delay, ret, success_result, yielded, diag, saved,
                   returned, late, browser, written>>

\* CommitContent without the "if not success_result['content']" test
CommitContent_Unchecked(s) ==
    /\ upc[s] = "locked"
    /\ success_result' = [success_result EXCEPT !.content = ret[s].val]
    /\ upc' = [upc EXCEPT ![s] = "name"]
    /\ UNCHANGED <<url, headers, concurrent, save_to_file, max_retries, methods, cpc, attempt,
                   calls, delay, ret, yielded, diag, saved, returned, late,
                   success_lock, browser, written>>

CommitContent_NameOutsideIf(s) ==
    /\ upc[s] = "locked"
    /\ success_result' = IF ~Truthy(success_result.content)
                         THEN [success_result EXCEPT !.content = ret[s].val]
                         ELSE success_result
    /\ upc' = [upc EXCEPT ![s] = "name"]
    /\ UNCHANGED <<url, headers, concurrent, save_to_file, max_retries, methods, cpc, attempt,
                   calls, delay, ret, yielded, diag, saved, returned, late,
                   success_lock, browser, written>>

\* if not success_result['content']: success_result['content'] = content;
\* otherwise the lock is released and the wrapper returns
CommitContent(s) ==
    /\ upc[s] = "locked"
    /\ IF ~Truthy(success_result.content)
       THEN /\ success_result' = [success_result EXCEPT !.content = ret[s].val]
            /\ upc' = [upc EXCEPT ![s] = "name"]
            /\ UNCHANGED success_lock
       ELSE /\ success_lock' = 0
            /\ upc' = [upc EXCEPT ![s] = "done"]
            /\ UNCHANGED success_result
    /\ UNCHANGED <<url, headers, concurrent, save_to_file, max_retries, methods, cpc, attempt,
                   calls, delay, ret, yielded, diag, saved, returned, late,
                   browser, written>>

\* success_result['method_name'] = method.method_name, release, return
CommitName(s) ==
    /\ upc[s] = "name"
    /\ success_result' = [success_result EXCEPT !.method_name = s]
    /\ success_lock' = 0
    /\ upc' = [upc EXCEPT ![s] = "done"]
    /\ UNCHANGED <<url, headers, concurrent, save_to_file, max_retries, methods, cpc, attempt,
                   calls, delay, ret, yielded, diag, saved, returned, late,
                   browser, written>>

\* the futures still in the executor's work queue
Pending == {s \in Units : upc[s] = "pending"}

AsCompleted_BreakFirst ==
    /\ cpc \in {"racing", "cancelling"}
    /\ IF cpc = "racing"
       THEN /\ yielded < Cardinality(Completed)
            /\ yielded' = yielded + 1
            /\ cpc' = "cancelling"
            /\ UNCHANGED upc
       ELSE /\ UNCHANGED yielded
            /\ IF Pending # {}
               THEN /\ upc' = [upc EXCEPT ![CHOOSE s \in Pending :
                                   \A t \in Pending : s <= t] = "cancelled"]
                    /\ UNCHANGED cpc
               ELSE /\ cpc' = "shutdown"
                    /\ UNCHANGED upc
    /\ UNCHANGED <<url, headers, concurrent, save_to_file, max_retries, methods, attempt, calls,
                   delay, ret, success_result, success_lock, diag, saved, returned, late,
                   browser, written>>

\* a step of "for future in as_completed(...)": a completed future is
\* yielded and the slot is tested; once the slot is found filled the inner
\* loop calls cancel() on the futures in submission order, one step for each
\* future that is still pending (cancel() does nothing to the others), and
\* then the loop is left; the loop also ends when every future was yielded
AsCompleted ==
    /\ cpc \in {"racing", "cancelling"}
    /\ IF cpc = "racing"
       THEN /\ yielded < Cardinality(Completed)
            /\ yielded' = yielded + 1
            /\ cpc' = IF Truthy(success_result.content) THEN "cancelling"
                      ELSE IF yielded + 1 = N THEN "shutdown" ELSE "racing"
            /\ UNCHANGED upc
       ELSE /\ UNCHANGED yielded
            /\ IF Pending # {}
               THEN /\ upc' = [upc EXCEPT ![CHOOSE s \in Pending :
                                   \A t \in Pending : s <= t] = "cancelled"]
                    /\ UNCHANGED cpc
               ELSE /\ cpc' = "shutdown"
                    /\ UNCHANGED upc
    /\ UNCHANGED <<url, headers, concurrent, save_to_file, max_retries, methods, attempt, calls,
                   delay, ret, success_result, success_lock, diag, saved, returned, late,
                   browser, written>>

HandleResults_ReturnIfSaved ==
    /\ cpc = "shutdown"
    /\ \A s \in Units : upc[s] \in {"done", "cancelled"}
    /\ cpc' = "returned"
    /\ IF Truthy(success_result.content)
       THEN IF save_to_file
            THEN /\ saved' = Append(saved, success_result.content)
                 /\ \E ok \in BOOLEAN :
                       /\ written' = IF ok THEN Append(written, success_result.content)
                                     ELSE written
                       /\ returned' = IF ok THEN success_result.content ELSE None
            ELSE /\ UNCHANGED <<saved, written>>
                 /\ returned' = success_result.content
       ELSE /\ returned' = None
            /\ UNCHANGED <<saved, written>>
    /\ UNCHANGED <<url, headers, concurrent, save_to_file, max_retries, methods, upc, attempt,
                   calls, delay, ret, success_result, success_lock, yielded, diag, late,
                   browser>>

HandleResults_DropsWin ==
    /\ cpc = "shutdown"
    /\ \A s \in Units : upc[s] \in {"done", "cancelled"}
    /\ cpc' = "returned"
    /\ IF Truthy(success_result.content)
       THEN /\ IF save_to_file THEN save_content(success_result.content)
                               ELSE UNCHANGED <<saved, written>>
            /\ returned' = None
       ELSE /\ returned' = None
            /\ UNCHANGED <<saved, written>>
    /\ UNCHANGED <<url, headers, concurrent, save_to_file, max_retries, methods, upc, attempt,
                   calls, delay, ret, success_result, success_lock, yielded, diag, late,
                   browser>>

HandleResults_NoJoin ==
    /\ cpc = "shutdown"
    /\ cpc' = "returned"
    /\ IF Truthy(success_result.content)
       THEN /\ IF save_to_file THEN save_content(success_result.content)
                               ELSE UNCHANGED <<saved, written>>
            /\ returned' = success_result.content
       ELSE /\ returned' = None
            /\ UNCHANGED <<saved, written>>
    /\ UNCHANGED <<url, headers, concurrent, save_to_file, max_retries, methods, upc, attempt,
                   calls, delay, ret, success_result, success_lock, yielded, diag, late,
                   browser>>

\* leaving the with block: executor.shutdown(wait=True) joins every worker,
\* then "Handle results" saves and returns the slot's content
HandleResults ==
    /\ cpc = "shutdown"
    /\ \A s \in Units : upc[s] \in {"done", "cancelled"}
    /\ cpc' = "returned"
    /\ IF Truthy(success_result.content)
       THEN /\ IF save_to_file THEN save_content(success_result.content)
                               ELSE UNCHANGED <<saved, written>>
            /\ returned' = success_result.content
       ELSE /\ returned' = None
            /\ UNCHANGED <<saved, written>>
    /\ UNCHANGED <<url, headers, concurrent, save_to_file, max_retries, methods, upc, attempt,
                   calls, delay, ret, success_result, success_lock, yielded, diag, late,
                   browser>>

\* ---- the sequential runner
SeqStart_All ==
    /\ cpc = "idle"
    /\ ~concurrent
    /\ cpc' = "seq"
    /\ upc' = [s \in Units |-> "attempt"]
    /\ calls' = [s \in Units |-> 1]
    /\ UNCHANGED <<url, headers, concurrent, save_to_file, max_retries, methods, attempt, delay,
                   ret, success_result, success_lock, yielded, diag, saved,
                   returned, late, browser, written>>

\* scrape_website with concurrent unset: "return None" where the validator
\* raised ValueError, else the for loop enters its first iteration
SeqStart ==
    /\ cpc = "idle"
    /\ ~concurrent
    /\ IF validate_and_format_url(url).ok
       THEN /\ cpc' = "seq"
            /\ upc' = [upc EXCEPT ![1] = "attempt"]
            /\ calls' = [calls EXCEPT ![1] = 1]
       ELSE /\ cpc' = "returned"
            /\ UNCHANGED <<upc, calls>>
    /\ UNCHANGED <<url, headers, concurrent, save_to_file, max_retries, methods, attempt, delay,
                   ret, success_result, success_lock, yielded, diag, saved,
                   returned, late, browser, written>>

Next ==
    \/ Launch
    \/ \E s \in Units : WorkerTake(s)
    \/ \E s \in Units : EarlyCheck(s)
    \/ \E s \in Units : AttemptEnds(s)
    \/ \E s \in Units : SleepEnds(s)
    \/ \E s \in Units : Acquire(s)
    \/ \E s \in Units : CommitContent(s)
    \/ \E s \in Units : CommitName(s)
    \/ AsCompleted
    \/ HandleResults
    \/ SeqStart

Spec == Init /\ [][Next]_vars

\* the races that save their result, every thread that can take a step
\* eventually taking one
InitFair ==
    \E c \in BOOLEAN :
    \E ms \in [1..NumStrategies -> RaceBehaviours(RaceMaxRetries)] :
        InitWith(c, TRUE, RaceMaxRetries, ms)

FairSpec == InitFair /\ [][Next]_vars /\ WF_vars(Next)

\* ---- retry_with_backoff on its own: the sequential runner over one strategy,
\* for every max_retries up to RetryMaxRetries and every behaviour of func
InitRetry ==
    \E f \in BOOLEAN, mr \in 0..RetryMaxRetries :
    \E b \in Behaviours(mr) :
        InitWith(FALSE, f, mr, <<b>>)

NextRetry ==
    \/ SeqStart
    \/ \E s \in Units : AttemptEnds(s)
    \/ \E s \in Units : SleepEnds(s)

SpecRetry == InitRetry /\ [][NextRetry]_vars

\* ---- is_valid_content on its own: the sequential runner over two strategies
\* that return the same page text, or both nothing, for every page text
Serving(pg) == [fails |-> 0, final |-> "page", catches |-> TRUE, page |-> pg]

InitValidator ==
    \/ \E pg \in {q \in Pages : Len(q.frag) <= q.len} :
          InitWith(FALSE, TRUE, 0, <<Serving(pg), Serving(pg)>>)
    \/ InitWith(FALSE, TRUE, 0,
                <<[fails |-> 1, final |-> "empty", catches |-> TRUE],
                  [fails |-> 1, final |-> "empty", catches |-> TRUE]>>)

NextValidator ==
    \/ SeqStart
    \/ \E s \in Units : AttemptEnds(s)

SpecValidator == InitValidator /\ [][NextValidator]_vars

\* ---- strategies whose optional library is missing, next to strategies that
\* swallow a transport failure, work, or raise on every attempt
Unavailable == [fails |-> 0, final |-> "unavailable", catches |-> TRUE]

CapabilityBehaviours(mr) ==
    {Unavailable,
     [fails |-> 1, final |-> "empty", catches |-> TRUE],
     [fails |-> 0, final |-> "valid", catches |-> TRUE],
     [fails |-> mr + 1, final |-> "empty", catches |-> FALSE]}

InitCapability ==
    \E c \in BOOLEAN :
    \E ms \in [1..NumStrategies -> CapabilityBehaviours(RaceMaxRetries)] :
        InitWith(c, TRUE, RaceMaxRetries, ms)

SpecCapability == InitCapability /\ [][Next]_vars

\* ---- browser-driving strategies, whose attempt breaks at the launch of the
\* browser, at the page load, or not at all, next to a strategy that raises
BrowserStrategy(e, br) ==
    [fails |-> IF br = "none" THEN 0 ELSE 1,
     final |-> IF br = "none" THEN "valid" ELSE "empty",
     catches |-> TRUE, engine |-> e, breaks |-> br]

BrowserBehaviours(mr) ==
    {BrowserStrategy("selenium", br) : br \in {"launch", "get", "none"}}
    \cup {BrowserStrategy("requests_html", br) : br \in {"get", "render", "none"}}
    \cup {[fails |-> mr + 1, final |-> "empty", catches |-> FALSE]}

InitBrowser ==
    \E c \in BOOLEAN :
    \E ms \in [1..NumStrategies -> BrowserBehaviours(RaceMaxRetries)] :
        InitWith(c, TRUE, RaceMaxRetries, ms)

SpecBrowser == InitBrowser /\ [][Next]_vars

\* ---- the pool at its cap: the StrategySets of _initialize_methods
Swallowing == [fails |-> 1, final |-> "empty", catches |-> TRUE]
Hanging    == [fails |-> 0, final |-> "hang", catches |-> TRUE]
Flaky      == [fails |-> 1, final |-> "invalid", catches |-> FALSE]
Working    == [fails |-> 0, final |-> "valid", catches |-> TRUE]

\* the 10 standard strategies, all failing
StandardFailing == [s \in 1..NumStandardMethods |-> Swallowing]

\* the 13 aggressive strategies: seven stuck, one flaky, the last one working
AggressiveStuck ==
    [s \in 1..NumAggressiveMethods |->
        IF s <= PoolCap - 1 THEN Hanging
        ELSE IF s = PoolCap THEN Flaky
        ELSE IF s = NumAggressiveMethods THEN Working
        ELSE Swallowing]

InitCap ==
    \/ \E c \in BOOLEAN : InitWith(c, TRUE, RaceMaxRetries, StandardFailing)
    \/ InitWith(TRUE, TRUE, RaceMaxRetries, AggressiveStuck)

SpecCap == InitCap /\ [][Next]_vars

\* ---- the queue behind the pool: StrategySets with more strategies than
\* threads in which some attempts are stuck, so that few threads serve the
\* rest, every thread that can take a step eventually taking one
\* the 13 aggressive strategies: seven stuck, one flaky, none working
AggressiveFailing == [AggressiveStuck EXCEPT ![NumAggressiveMethods] = Swallowing]

\* the 10 standard strategies: five stuck, one flaky, none working
StandardStuck ==
    [s \in 1..NumStandardMethods |->
        IF s <= PoolCap - 3 THEN Hanging
        ELSE IF s = NumStandardMethods - 1 THEN Flaky
        ELSE Swallowing]

InitQueue ==
    \/ InitWith(TRUE, TRUE, RaceMaxRetries, AggressiveStuck)
    \/ InitWith(TRUE, TRUE, RaceMaxRetries, AggressiveFailing)
    \/ InitWith(TRUE, TRUE, RaceMaxRetries, StandardStuck)
    \/ InitWith(FALSE, TRUE, RaceMaxRetries, StandardFailing)
    \/ \E ms \in [1..NumStrategies -> {Working, Swallowing}] :
          InitWith(TRUE, TRUE, RaceMaxRetries, ms)

FairSpecQueue == InitQueue /\ [][Next]_vars /\ WF_vars(Next)

\* ---- the two modes over the same StrategySet: strategies that end every
\* attempt the same way (a valid page, a rejected page, nothing, a raised
\* failure), two of them driving a browser
Invalid == [fails |-> 0, final |-> "invalid", catches |-> TRUE]

DeterministicBehaviours(mr) ==
    {Working, Invalid, Swallowing,
     [fails |-> mr + 1, final |-> "empty", catches |-> FALSE],
     BrowserStrategy("selenium", "none"),
     BrowserStrategy("requests_html", "none")}

InitModes ==
    \E c \in BOOLEAN, f \in BOOLEAN :
    \E ms \in [1..NumStrategies -> DeterministicBehaviours(RaceMaxRetries)] :
        InitWith(c, f, RaceMaxRetries, ms)

SpecModes == InitModes /\ [][Next]_vars

\* ---- scrape_website over the targets, accepted and rejected
InitTarget ==
    \E u \in Targets, c \in BOOLEAN, f \in BOOLEAN :
    \E ms \in [1..NumStrategies -> {Working, Swallowing, Flaky}] :
        InitWithTarget(u, c, f, RaceMaxRetries, ms)

SpecTarget == InitTarget /\ [][Next]_vars

\* ---- the claims
\* the strategy whose retry loop handed a valid result to the wrapper
HasValidResult(s) == ret[s].kind = "return" /\ is_valid_content(ret[s].val)

Committed == Truthy(success_result.content)

(***************************************************************************)
(* C1  At most one winner: the outcome slot is written at most once (its   *)
(* content changes only while it is still empty, its winner name only      *)
(* while it is still unset, and the name is that of the strategy whose     *)
(* content is in the slot); a valid result that arrives later never        *)
(* overwrites it; the concurrent race returns exactly the committed        *)
(* content.                                                                *)
(***************************************************************************)
C1_SlotWrittenOnce ==
    /\ success_result'.content # success_result.content
          => ~Committed /\ is_valid_content(success_result'.content)
    /\ success_result'.method_name # success_result.method_name
          => /\ success_result.method_name = 0
             /\ success_result'.method_name = success_result'.content.src

C1_ReturnsCommitted ==
    (concurrent /\ cpc = "returned" /\ Committed) => returned = success_result.content

C1_AtMostOneWinner == [][C1_SlotWrittenOnce]_vars /\ []C1_ReturnsCommitted

\* a second strategy came to the lock with a valid result after the commit,
\* left the slot alone, and the race returned the first one's content
C1_Witness ==
    /\ concurrent /\ cpc = "returned"
    /\ returned = success_result.content
    /\ \E s \in Units :
         /\ HasValidResult(s)
         /\ upc[s] = "done"
         /\ success_result.method_name # s
         /\ success_result.content.src = success_result.method_name

\* ---- what a strategy's behaviour makes of its retry loop
\* the loop gets as far as the strategy's final behaviour
ReachesFinal(s) ==
    \/ methods[s].fails = 0
    \/ ~methods[s].catches /\ methods[s].fails <= max_retries

ImmediatelyValid(s) == methods[s].fails = 0 /\ methods[s].final = "valid"
WouldValidate(s) == ReachesFinal(s) /\ methods[s].final = "valid"
WouldHang(s) == ReachesFinal(s) /\ methods[s].final = "hang"
Fails(s) == ~WouldValidate(s) /\ ~WouldHang(s)
AlwaysRaises(s) == ~methods[s].catches /\ methods[s].fails = max_retries + 1

Won == cpc = "returned" /\ is_valid_content(returned)
Exhausted == cpc = "returned" /\ returned = None

\* the failure causes a value handed to the caller holds: None and a page
\* text hold none
CausesIn(v) == IF v.kind \in {"None", "Text"} THEN <<>> ELSE v.causes

(***************************************************************************)
(* C2  When some strategy returns valid content on its first attempt and   *)
(* the others fail, return invalid content or are slow (none hangs), the   *)
(* race, concurrent or sequential, eventually returns valid content, and   *)
(* in the concurrent race that content is the committed one.               *)
(***************************************************************************)
C2_ValidStrategyWins ==
    ((\E s \in Units : ImmediatelyValid(s)) /\ (\A s \in Units : ~WouldHang(s)))
        ~> (Won /\ (concurrent => returned = success_result.content))

\* a race won although another strategy raised on every attempt
C2_Witness ==
    /\ Won
    /\ \E s \in Units : ImmediatelyValid(s) /\ returned.src = s
    /\ \E t \in Units : AlwaysRaises(t) /\ ret[t].kind = "raise"

(***************************************************************************)
(* C3  When every strategy fails (its retry loop raises, or returns no or  *)
(* invalid content), the race, concurrent or sequential, ends Exhausted.   *)
(* As claimed, the Exhausted outcome carries one failure cause per         *)
(* strategy (C3_ExhaustedCarriesCauses).  As amended, the caller gets      *)
(* None, which carries no cause, and the coordinator has printed exactly   *)
(* one diagnostic line about every strategy (C3_ExhaustedLogsEachStrategy).*)
(***************************************************************************)
AllFail == \A s \in Units : Fails(s)

C3_ExhaustedCarriesCauses ==
    (AllFail /\ cpc = "returned") => Exhausted /\ Len(CausesIn(returned)) = N

C3_ExhaustedLogsEachStrategy ==
    /\ AllFail ~> Exhausted
    /\ [](AllFail /\ cpc = "returned" =>
            /\ Exhausted
            /\ CausesIn(returned) = <<>>
            /\ \A s \in Units :
                 /\ Len(diag[s]) = 1
                 /\ (diag[s][1].line = "exception") = (ret[s].kind = "raise")
                 /\ diag[s][1].cause = ret[s].cause)

\* an exhausted concurrent race, one strategy having raised on every attempt
\* and another having returned content that did not validate
C3_Witness ==
    /\ Exhausted /\ AllFail /\ concurrent
    /\ \E s, t \in Units :
         /\ ret[s].kind = "raise" /\ diag[s][1].line = "exception"
         /\ ret[t].kind = "return" /\ diag[t][1].line = "invalid"

(***************************************************************************)
(* C4  Cancellation: once a winner has committed, every other unit begins  *)
(* at most one further attempt or sleep before it ends.                    *)
(***************************************************************************)
C4_CancelledWithinOneStep == \A s \in Units : late[s] <= 1

(***************************************************************************)
(* C5  Failure isolation: when a winner has committed, the coordinator has *)
(* left its loop and the only units that have not ended are stuck in an    *)
(* attempt that never returns, the coordinator can return.                 *)
(***************************************************************************)
Hung(s) == upc[s] = "attempt" /\ _scrape_with_method(s, attempt[s]).kind = "hang"

C5_HangDoesNotBlock ==
    ( /\ cpc = "shutdown"
      /\ Committed
      /\ \E s \in Units : Hung(s)
      /\ \A s \in Units : Hung(s) \/ upc[s] \in {"done", "cancelled"} )
    => ENABLED HandleResults

(***************************************************************************)
(* C6  Concurrency cap: in a race over n strategies never more than        *)
(* min(n, 8) units are executing a strategy attempt at once.               *)
(***************************************************************************)
Attempting == {s \in Units : upc[s] = "attempt"}

C6_ConcurrencyCap == Cardinality(Attempting) <= Min(N, PoolCap)

\* 13 strategies, 8 of them in an attempt, one admitted after another had
\* ended, and some still waiting in the queue
C6_Witness ==
    /\ N = NumAggressiveMethods
    /\ Cardinality(Attempting) = PoolCap
    /\ \E s \in Units : upc[s] = "done"
    /\ \E s \in Units : upc[s] = "pending"

(***************************************************************************)
(* C7  Sequential runner: strategies are attempted in StrategySet order,   *)
(* each only after every earlier one has ended without a valid result; the *)
(* first valid result is returned in the step that validates it, it is the *)
(* result of the lowest-index strategy that validates, and no later        *)
(* strategy is invoked.  If none validates: as claimed, the result is      *)
(* Exhausted with the causes, in encounter order                           *)
(* (C7_SequentialCarriesCauses); as amended, None is returned, which holds *)
(* no causes, and the diagnostic lines have been printed one per strategy  *)
(* in encounter order (C7_SequentialFirstValid).                           *)
(***************************************************************************)
Validating == {s \in Units : WouldValidate(s)}
Lowest(S) == CHOOSE s \in S : \A t \in S : s <= t

C7_InOrder ==
    ~concurrent =>
      \A s \in Units :
        /\ (upc[s] = "new" /\ upc'[s] # "new")
              => \A t \in Units : t < s =>
                    (upc[t] = "done" /\ ~HasValidResult(t) /\ Len(diag[t]) = 1)'
        /\ diag'[s] # diag[s]
              => \A t \in Units : t > s => diag[t] = <<>> /\ calls[t] = 0

C7_WinnerIsFirstValid ==
    (~concurrent /\ cpc = "returned" /\ Validating # {}) =>
        /\ returned = PageText(Lowest(Validating), "valid")
        /\ \A t \in Units : t > Lowest(Validating) => upc[t] = "new" /\ calls[t] = 0
        /\ \A t \in Units : t < Lowest(Validating) => calls[t] >= 1

C7_ReturnedAtOnce ==
    (~concurrent /\ \E s \in Units : HasValidResult(s)) => cpc = "returned"

C7_SequentialCarriesCauses ==
    (~concurrent /\ cpc = "returned" /\ Validating = {}) =>
        Exhausted /\ Len(CausesIn(returned)) = N

C7_SequentialFirstValid ==
    /\ [][C7_InOrder]_vars
    /\ [](C7_WinnerIsFirstValid /\ C7_ReturnedAtOnce)
    /\ []((~concurrent /\ cpc = "returned" /\ Validating = {}) =>
            /\ Exhausted
            /\ CausesIn(returned) = <<>>
            /\ \A s \in Units : Len(diag[s]) = 1)

\* the sequential runner returned the content of a strategy that is not the
\* first one, the earlier ones having raised or returned nothing usable
C7_Witness ==
    /\ ~concurrent /\ Won
    /\ returned.src > 1
    /\ returned.src = Lowest(Validating)
    /\ \A t \in Units : t < returned.src => Len(diag[t]) = 1

(***************************************************************************)
(* C8  Retry success path: when func fails on its first k attempts,        *)
(* k <= max_retries, and then returns, retry_with_backoff returns that     *)
(* result after k + 1 attempts and exactly k sleeps, and every sleep is at *)
(* least as long as the one before it.                                     *)
(***************************************************************************)
FailsThenReturns(s) ==
    /\ ~methods[s].catches \/ methods[s].fails = 0
    /\ methods[s].fails <= max_retries
    /\ methods[s].final # "hang"

C8_SucceedsAfterKSleeps ==
    \A s \in Units :
        (FailsThenReturns(s) /\ ret[s].kind # "none") =>
            /\ ret[s] = Return(PageText(s, methods[s].final))
            /\ calls[s] = methods[s].fails + 1
            /\ attempt[s] = methods[s].fails

C8_DelaysGrow == \A s \in Units : upc'[s] = "sleep" => delay'[s] >= delay[s]

C8_RetrySuccess == []C8_SucceedsAfterKSleeps /\ [][C8_DelaysGrow]_vars

\* max_retries = 3, two failures, success on the third attempt, two sleeps
C8_Witness ==
    /\ max_retries = 3
    /\ methods[1].fails = 2 /\ methods[1].final = "valid"
    /\ ret[1] = Return(PageText(1, "valid"))
    /\ calls[1] = 3 /\ attempt[1] = 2

(***************************************************************************)
(* C9  A strategy whose attempt ends in a transport failure is attempted   *)
(* again, and has ended only after max_retries + 1 attempts.               *)
(***************************************************************************)
LastAttemptFailed(s) == calls[s] >= 1 /\ calls[s] - 1 < methods[s].fails

C9_TransportFailureRetried ==
    \A s \in Units :
        (upc[s] = "done" /\ LastAttemptFailed(s)) => calls[s] = max_retries + 1

(***************************************************************************)
(* C10  Retry exhaustion: when func fails on all max_retries + 1 attempts, *)
(* retry_with_backoff makes exactly max_retries + 1 attempts and raises    *)
(* the failure of the last one, and it raises nothing in any other case.   *)
(***************************************************************************)
C10_RetryExhaustion ==
    \A s \in Units :
        /\ (AlwaysRaises(s) /\ ret[s].kind # "none") =>
              ret[s] = Raise(max_retries + 1) /\ calls[s] = max_retries + 1
        /\ ret[s].kind = "raise" =>
              /\ AlwaysRaises(s)
              /\ ret[s].cause = max_retries + 1
              /\ diag[s] = <<[line |-> "exception", cause |-> max_retries + 1]>>

\* four failed attempts with max_retries = 3, the fourth failure raised
C10_Witness ==
    /\ max_retries = 3
    /\ ret[1] = Raise(4)
    /\ calls[1] = 4 /\ attempt[1] = 3

\* ---- claims about the content validator (SpecValidator)
\* strategy s handed a candidate to is_valid_content
Validated(s) == ret[s].kind = "return"

\* the candidate of s was accepted: the runner returned it
Accepted(s) ==
    /\ Validated(s)
    /\ cpc = "returned"
    /\ returned # None
    /\ returned.src = s
    /\ diag[s] = <<>>

\* the candidate of s was rejected: the runner printed its line and went on
Rejected(s) == Validated(s) /\ Len(diag[s]) = 1

MarkerFree(c) == c.kind = "Text" /\ ~c.marker
RawLen(c) == c.len + c.pad

\* C11 as stated: a candidate shorter than 100 units that contains a structural
\* marker is accepted whatever its length.
C11_ShortWithMarkerAccepted ==
    \A s \in Units :
        (Validated(s) /\ ret[s].val.marker /\ RawLen(ret[s].val) < MinLength)
            => ~Rejected(s)

\* C11 amended: a candidate whose stripped length is below 100 units is
\* rejected even when it contains a structural marker; a marker makes a
\* candidate acceptable only from 100 units on.
C11_ShortRejectedDespiteMarker ==
    \A s \in Units :
        (Validated(s) /\ ret[s].val.marker) =>
            /\ ret[s].val.len < MinLength => Rejected(s)
            /\ ret[s].val.len >= MinLength => Accepted(s)

C11_Witness ==
    /\ Rejected(1)
    /\ ret[1].val.marker
    /\ ret[1].val.len = 50

C13_AbsentOrShortRejected ==
    \A s \in Units :
        Validated(s) =>
            /\ ret[s].val = None => Rejected(s)
            /\ (ret[s].val.kind = "Text" /\ ret[s].val.len = 0) => Rejected(s)
            /\ (MarkerFree(ret[s].val) /\ RawLen(ret[s].val) < MinLength)
                    => Rejected(s)

C13_Witness ==
    /\ Rejected(1) /\ Rejected(2)
    /\ MarkerFree(ret[1].val)
    /\ ret[1].val.len = MinLength - 1
    /\ ret[1].val.pad = 0

C20_MarkerFreeBoundary ==
    \A s \in Units :
        (Validated(s) /\ MarkerFree(ret[s].val)) =>
            /\ Accepted(s) <=> ret[s].val.len > LongLength
            /\ Rejected(s) <=> ret[s].val.len <= LongLength
            /\ (ret[s].val.len <= LongLength /\ RawLen(ret[s].val) > LongLength)
                    => Rejected(s)

C20_Witness ==
    /\ Rejected(1)
    /\ MarkerFree(ret[1].val)
    /\ ret[1].val.len = MinLength

\* ---- claims about failing strategies in the race
\* strategy s was invoked and its unit has ended
Ended(s) == upc[s] = "done" /\ calls[s] >= 1

\* strategy s has no part in the outcome slot or in the returned value
NoCommitBy(s) ==
    /\ upc[s] \notin {"lock", "locked", "name"}
    /\ success_result.method_name # s
    /\ success_result.content.src # s
    /\ returned.src # s

\* the step in which the loser s hands its result to the runner leaves the
\* race running: the slot, the coordinator and every other unit are as
\* before in the concurrent race, and the sequential runner starts the next
\* strategy (after the last one it returns None)
LeavesRaceRunning(s) ==
    /\ success_result' = success_result
    /\ saved' = saved
    /\ upc'[s] = "done"
    /\ concurrent =>
          /\ cpc' = cpc
          /\ \A t \in Units \ {s} : upc'[t] = upc[t]
    /\ (~concurrent /\ s < N) =>
          /\ cpc' = cpc
          /\ upc'[s + 1] = "attempt"
          /\ calls'[s + 1] = 1
    /\ (~concurrent /\ s = N) => (cpc' = "returned" /\ returned' = None)

\* C15: Exhausted is returned only when every strategy was invoked, its unit
\* ended, and it ended failed (all attempts used) or with invalid content; no
\* unit was skipped or cancelled and no valid result is left unreported.
C15_ExhaustedOnlyAfterAll ==
    Exhausted =>
        \A s \in Units :
            /\ Ended(s)
            /\ ret[s].kind \in {"return", "raise"}
            /\ ~HasValidResult(s)
            /\ ret[s].kind = "raise" => calls[s] = max_retries + 1
            /\ Len(diag[s]) = 1

C15_Witness ==
    /\ Exhausted
    /\ concurrent
    /\ \E s, t \in Units : ret[s].kind = "raise" /\ Truthy(ret[t].val)

\* C16: an error raised out of a strategy's retry loop stays inside its unit:
\* the unit ends without committing and with its diagnostic line, the step
\* leaves the race running, and the race returns either valid content or
\* None after every strategy was invoked (both modes).
C16_RaiseStep ==
    \A s \in Units :
        (ret[s].kind = "none" /\ ret'[s].kind = "raise") => LeavesRaceRunning(s)

C16_RaiseContained ==
    /\ \A s \in Units :
          ret[s].kind = "raise" =>
              /\ Ended(s)
              /\ NoCommitBy(s)
              /\ Len(diag[s]) = 1 /\ diag[s][1].line = "exception"
    /\ cpc = "returned" => (Won \/ Exhausted)
    /\ Exhausted => \A s \in Units : calls[s] >= 1

C16_ErrorsDoNotPropagate == [][C16_RaiseStep]_vars /\ []C16_RaiseContained

C16_Witness ==
    /\ Won
    /\ \E s \in Units : ret[s].kind = "raise" /\ s < returned.src

\* C17 as stated: the coordinator can tell a self-disabled strategy from one
\* whose transport failed, and prints no diagnostic line for it.
IsUnavailable(s) == methods[s].final = "unavailable"
TransportFailed(s) == methods[s].final # "unavailable" /\ methods[s].catches /\ methods[s].fails >= 1

C17_UnavailableDistinguished ==
    \A s, t \in Units :
        (IsUnavailable(s) /\ Ended(s) /\ TransportFailed(t) /\ Ended(t)) =>
            /\ <<ret[s], diag[s]>> # <<ret[t], diag[t]>>
            /\ diag[s] = <<>>

\* C17 amended: a self-disabled strategy returns None as a strategy whose
\* transport failure was swallowed does; it is invoked once and never
\* retried, and the coordinator prints for it the line it prints for any
\* strategy that returned no content.
C17_UnavailableLikeNoContent ==
    \A s \in Units :
        (IsUnavailable(s) /\ Ended(s)) =>
            /\ calls[s] = 1
            /\ attempt[s] = 0
            /\ ret[s] = Handed(Return(None))
            /\ diag[s] = <<[line |-> IF concurrent THEN "invalid" ELSE "no_content",
                            cause |-> 0]>>
            /\ \A t \in Units :
                  (TransportFailed(t) /\ Ended(t)) =>
                      <<ret[s], diag[s]>> = <<ret[t], diag[t]>>

C17_Witness ==
    \E s, t \in Units :
        /\ IsUnavailable(s) /\ Ended(s)
        /\ TransportFailed(t) /\ Ended(t)
        /\ Len(diag[s]) = 1

\* C18 as stated: a strategy that returns no content is retried as a
\* strategy that raises is.
ReturnsNothing(s) == methods[s].catches /\ methods[s].fails >= 1

C18_SameRetry ==
    \A s, t \in Units :
        (ReturnsNothing(s) /\ Ended(s) /\ AlwaysRaises(t) /\ Ended(t)) =>
            calls[s] = calls[t]

\* C18 amended: a strategy that returns no content and a strategy that
\* raises both end without a commit and leave the race running; the one
\* that returns no content is invoked once and never retried, the one that
\* raises is invoked max_retries + 1 times.
C18_FailureStep ==
    \A s \in Units :
        (ret[s].kind = "none" /\ ret'[s].kind # "none"
            /\ (ReturnsNothing(s) \/ AlwaysRaises(s))) => LeavesRaceRunning(s)

C18_FailureEnded ==
    \A s \in Units :
        Ended(s) =>
            /\ ReturnsNothing(s) =>
                  /\ calls[s] = 1 /\ attempt[s] = 0
                  /\ ret[s] = Handed(Return(None))
                  /\ NoCommitBy(s)
            /\ AlwaysRaises(s) =>
                  /\ calls[s] = max_retries + 1
                  /\ ret[s].kind = "raise"
                  /\ NoCommitBy(s)

C18_NoCommitRetryDiffers == [][C18_FailureStep]_vars /\ []C18_FailureEnded

C18_Witness ==
    \E s, t \in Units :
        /\ ReturnsNothing(s) /\ Ended(s)
        /\ AlwaysRaises(t) /\ Ended(t)
        /\ calls[s] < calls[t]

\* C19: a strategy that returns non-empty invalid content never takes the
\* lock's commit path and never appears in the slot or in the result; the
\* step that reports it leaves the slot unchanged and the race running, and
\* a later strategy can still win (both modes).
ReturnsInvalid(s) == ReachesFinal(s) /\ methods[s].final = "invalid"

C19_InvalidStep ==
    \A s \in Units :
        (ret[s].kind = "none" /\ ret'[s].kind = "return"
            /\ Truthy(ret'[s].val) /\ ReturnsInvalid(s)) => LeavesRaceRunning(s)

C19_InvalidEnded ==
    \A s \in Units :
        ReturnsInvalid(s) =>
            /\ NoCommitBy(s)
            /\ Ended(s) => (Truthy(ret[s].val) /\ Len(diag[s]) = 1)

C19_InvalidNeverWins == [][C19_InvalidStep]_vars /\ []C19_InvalidEnded

C19_Witness ==
    /\ Won
    /\ \E s \in Units :
          /\ ReturnsInvalid(s) /\ Ended(s)
          /\ Truthy(ret[s].val)
          /\ s < returned.src

\* ---- claims about the commit
\* C21: a unit that holds the lock while the slot is empty writes its own
\* validated content and then its own name before it releases the lock; a
\* unit that holds the lock while the slot is filled leaves the slot as it
\* is; whenever the lock is free the slot is empty or holds the content and
\* the name of one and the same strategy, and that strategy is the winner
\* the race returns.
C21_LockHolderStep ==
    \A s \in Units :
        /\ (upc[s] = "locked" /\ upc'[s] # "locked") =>
              IF Committed
              THEN success_result' = success_result /\ upc'[s] = "done"
              ELSE /\ HasValidResult(s)
                   /\ success_result'.content = ret[s].val
                   /\ success_lock' = s
        /\ (upc[s] = "name" /\ upc'[s] # "name") =>
              /\ success_result'.method_name = s
              /\ success_result'.content = ret[s].val
              /\ success_result'.content.src = s

C21_SlotOfOneStrategy ==
    /\ success_lock = 0 =>
          \/ success_result = [content |-> None, method_name |-> 0]
          \/ /\ Committed
             /\ success_result.content.src = success_result.method_name
    /\ (concurrent /\ Won) =>
          /\ returned.src = success_result.method_name
          /\ returned = ret[success_result.method_name].val

C21_WinnerWritesBoth == [][C21_LockHolderStep]_vars /\ []C21_SlotOfOneStrategy

C21_Witness ==
    /\ concurrent /\ Won
    /\ \E s, t \in Units :
          /\ s # t
          /\ HasValidResult(s) /\ HasValidResult(t)
          /\ upc[s] = "done" /\ upc[t] = "done"
          /\ success_result.method_name = s
          /\ returned.src = s

\* ---- claims about the queue behind the pool
Queued(s) == upc[s] = "pending"

\* C22: a queued strategy leaves the queue only by being admitted, in
\* submission order and while fewer than min(n, 8) units are active, or by
\* being cancelled after a winner committed; a strategy beyond the cap is
\* admitted only after an active unit has finished; and a launched race
\* eventually has a committed winner or has attempted every strategy.
C22_QueueStep ==
    \A s \in Units :
        (Queued(s) /\ ~Queued(s)') =>
            \/ /\ upc'[s] = "running"
               /\ Cardinality(Busy) < max_workers
               /\ \A t \in Units : t < s => ~Queued(t)
               /\ s > max_workers => \E t \in Units : upc[t] = "done"
            \/ /\ upc'[s] = "cancelled"
               /\ Committed

C22_AllAttemptedOrWon ==
    (cpc = "racing") ~> (Committed \/ \A s \in Units : calls[s] >= 1)

C22_NoneDropped ==
    \A s \in Units : upc[s] = "cancelled" => (Committed /\ calls[s] = 0)

C22_QueueAdmitsEveryone ==
    /\ [][C22_QueueStep]_vars
    /\ []C22_NoneDropped
    /\ C22_AllAttemptedOrWon

\* the last of 13 strategies, admitted behind seven stuck units, wins
C22_Witness ==
    /\ Committed
    /\ N > PoolCap
    /\ success_result.content.src = N
    /\ success_result.method_name = N
    /\ \A s \in Units : s > PoolCap => calls[s] >= 1

\* ---- claims about the race as a whole
Idle == cpc = "idle"
Racing == cpc \in {"racing", "cancelling", "shutdown", "seq"}
Returned == cpc = "returned"

\* C23: a race moves only from Idle to Racing and from Racing to its return;
\* the returned value is set once, in the step that returns, and nothing
\* changes after it; the race returns either valid content (Won) or None
\* (Exhausted), never both, and a concurrent race returns valid content
\* exactly when a winner has committed, that content being the slot's.
C23_PhaseStep ==
    /\ cpc' # cpc =>
          \/ Idle /\ Racing'
          \/ cpc = "racing" /\ cpc' \in {"cancelling", "shutdown"}
          \/ cpc = "cancelling" /\ cpc' = "shutdown"
          \/ Racing /\ Returned'
    /\ returned' # returned => (~Returned /\ Returned')
    /\ Returned => UNCHANGED vars

C23_OneOutcome ==
    /\ Returned =>
          /\ Won # Exhausted
          /\ concurrent => (Committed <=> Won)
          /\ (concurrent /\ Won) => returned = success_result.content
          /\ Won => \E s \in Units : HasValidResult(s) /\ returned = ret[s].val
    /\ ~Returned => (returned = None /\ saved = <<>>)
    /\ Idle => (\A s \in Units : upc[s] = "new" /\ calls[s] = 0) /\ ~Committed

C23_IdleRacingOutcome == [][C23_PhaseStep]_vars /\ []C23_OneOutcome

C23_Witness ==
    /\ Returned /\ concurrent /\ Won
    /\ \E s \in Units : upc[s] = "done" /\ Len(diag[s]) = 1

\* ---- claims about the retry loop's schedule (SpecRetry)
\* C24: the sleep that follows the failed attempt number k (k = 0, 1, ...)
\* lasts between base_delay * 2^k and base_delay * 2^k + 1 seconds (a second
\* being JitterSteps units); an attempt after the first is started only by
\* the end of a sleep and every sleep ends in the next attempt, so attempts
\* and sleeps alternate; the attempt number max_retries is never followed
\* by a sleep.
C24_ScheduleStep ==
    \A s \in Units :
        /\ (upc[s] # "sleep" /\ upc'[s] = "sleep") =>
              /\ upc[s] = "attempt"
              /\ attempt[s] < max_retries
              /\ delay'[s] >= BaseDelay * (2 ^ attempt[s]) * JitterSteps
              /\ delay'[s] <= BaseDelay * (2 ^ attempt[s]) * JitterSteps + JitterSteps
              /\ calls'[s] = calls[s] /\ attempt'[s] = attempt[s]
        /\ (upc[s] = "sleep" /\ upc'[s] # "sleep") =>
              /\ upc'[s] = "attempt"
              /\ calls'[s] = calls[s] + 1
              /\ attempt'[s] = attempt[s] + 1
        /\ (calls'[s] # calls[s] /\ calls[s] >= 1) => upc[s] = "sleep"

C24_Alternation ==
    \A s \in Units :
        /\ calls[s] >= 1 => calls[s] = attempt[s] + 1
        /\ attempt[s] <= max_retries
        /\ upc[s] = "sleep" => attempt[s] < max_retries
        /\ ret[s].kind = "raise" => (attempt[s] = max_retries /\ upc[s] = "done")

C24_BackoffSchedule == [][C24_ScheduleStep]_vars /\ []C24_Alternation

\* the third sleep of a loop with max_retries = 3, with the largest jitter
C24_Witness ==
    /\ max_retries = 3
    /\ upc[1] = "sleep"
    /\ attempt[1] = 2 /\ calls[1] = 3
    /\ delay[1] = BaseDelay * 4 * JitterSteps + JitterSteps

\* ---- claims about the isolation of retry loops
\* the number of invocations the retry loop of strategy s makes when it runs
\* alone: one if the first invocation returns, else one more per raised
\* failure up to max_retries + 1
ExpectedCalls(s) ==
    IF methods[s].final = "unavailable" \/ methods[s].catches \/ methods[s].fails = 0
    THEN 1
    ELSE Min(methods[s].fails, max_retries) + 1

InRetryLoop(s) == upc[s] \in {"attempt", "sleep"}

\* C25: the attempt counter and the delay of a strategy change only in steps
\* of that strategy's own retry loop, and no step changes them for two
\* strategies; whatever the other units do, a strategy that has ended was
\* invoked as often as it would have been alone; the runner gets one result
\* per strategy, written once, and prints at most one line for it.
C25_PrivateStep ==
    \A s \in Units :
        /\ (attempt'[s] # attempt[s] \/ delay'[s] # delay[s]) =>
              /\ InRetryLoop(s)
              /\ \A t \in Units \ {s} :
                    attempt'[t] = attempt[t] /\ delay'[t] = delay[t]
        /\ ret[s].kind # "none" => ret'[s] = ret[s]
        /\ (InRetryLoop(s) /\ calls'[s] # calls[s]) =>
              (upc[s] = "sleep" /\ calls'[s] = calls[s] + 1)

C25_OwnSchedule ==
    \A s \in Units :
        /\ calls[s] <= ExpectedCalls(s)
        /\ Ended(s) =>
              /\ calls[s] = ExpectedCalls(s)
              /\ attempt[s] = ExpectedCalls(s) - 1
              /\ ret[s].kind \in {"return", "raise"}
        /\ Len(diag[s]) <= 1

C25_RetryStateIsolated == [][C25_PrivateStep]_vars /\ []C25_OwnSchedule

\* two retry loops interleaved: one sleeps after its first failure while the
\* other is already in its second invocation
C25_Witness ==
    /\ concurrent
    /\ \E s, t \in Units :
          /\ upc[s] = "sleep" /\ attempt[s] = 0
          /\ upc[t] = "attempt" /\ attempt[t] = 1 /\ calls[t] = 2

\* ---- claims about the sequential runner
\* C26: in a sequential race at most one strategy is in its retry loop
\* (attempting or sleeping) at any time and no unit is ever in the pool or
\* at the lock; strategy s + 1 has been invoked only if strategy s has
\* ended, its retry loop having raised after max_retries + 1 invocations or
\* returned content that did not validate.
C26_OneAtATime ==
    ~concurrent =>
        /\ Cardinality({s \in Units : InRetryLoop(s)}) <= 1
        /\ \A s \in Units : upc[s] \in {"new", "attempt", "sleep", "done"}
        /\ success_lock = 0 /\ ~Committed
        /\ \A s \in Units :
              (s < N /\ calls[s + 1] >= 1) =>
                  /\ upc[s] = "done"
                  /\ ret[s].kind \in {"return", "raise"}
                  /\ ~HasValidResult(s)
                  /\ ret[s].kind = "raise" => calls[s] = max_retries + 1
        /\ \A s \in Units : (s > 1 /\ calls[s] >= 1) => calls[s - 1] >= 1

C26_NextStartsAtEnd ==
    ~concurrent =>
        \A s \in Units :
            (calls[s] = 0 /\ calls'[s] = 1 /\ s > 1) =>
                /\ InRetryLoop(s - 1)
                /\ upc'[s - 1] = "done"
                /\ ret'[s - 1].kind # "none"

C26_SequentialNoConcurrency == []C26_OneAtATime /\ [][C26_NextStartsAtEnd]_vars

\* the second strategy attempting after the first one raised on all attempts
C26_Witness ==
    /\ ~concurrent
    /\ N >= 2
    /\ ret[1].kind = "raise" /\ calls[1] = max_retries + 1
    /\ upc[2] = "attempt"

\* ---- claims about released resources (SpecBrowser)
\* C27: whenever a unit is not inside an invocation of its strategy, no
\* browser process that its attempts opened is still running.
C27_BrowsersReleased ==
    \A s \in Units : upc[s] # "attempt" => browser[s] = 0

\* ---- claims about units that start late
\* the coordinator has seen the slot filled and is cancelling the futures
Cancelling == cpc = "cancelling"

SkippedUnit(s) == upc[s] \in {"done", "cancelled"} /\ calls[s] = 0

\* a unit that makes its entry test after the commit ends in that step
\* without an invocation
C28_EntryStep ==
    \A s \in Units :
        (upc[s] = "running" /\ Committed /\ upc'[s] # "running") =>
            (upc'[s] = "done" /\ calls'[s] = 0)

\* C28 as stated: a unit that starts after the commit returns without
\* invoking its strategy, and a unit that is queued when the coordinator
\* observes the win never starts.
C28_QueuedStep ==
    \A s \in Units : (Cancelling /\ Queued(s)) => upc'[s] # "running"

C28_QueuedNeverStart == [][C28_EntryStep /\ C28_QueuedStep]_vars

\* C28 amended: a unit that starts after the commit returns without
\* invoking its strategy (no attempt, no sleep, no result, no line, no
\* commit); a queued unit is cancelled only by the coordinator's cancel
\* loop after the commit, a cancelled unit never starts, and no unit is
\* queued once the loop is left; a queued unit that a worker takes before
\* the loop reaches it starts, and returns without invoking its strategy.
C28_LateStep ==
    /\ C28_EntryStep
    /\ \A s \in Units :
          /\ upc[s] = "cancelled" => (upc'[s] = "cancelled" /\ calls'[s] = 0)
          /\ (Queued(s) /\ upc'[s] = "cancelled") => (Cancelling /\ Committed)
          /\ (Cancelling /\ Queued(s) /\ ~Queued(s)') =>
                upc'[s] \in {"cancelled", "running"}

C28_LateUnitsDoNothing ==
    /\ \A s \in Units :
          SkippedUnit(s) =>
              /\ Committed
              /\ success_result.content.src # s
              /\ success_result.method_name # s
              /\ attempt[s] = 0 /\ delay[s] = 0 /\ late[s] = 0
              /\ ret[s].kind = "none"
              /\ diag[s] = <<>>
              /\ browser[s] = 0
    /\ \A s \in Units : (Cancelling /\ upc[s] = "running") => Committed
    /\ (cpc \in {"shutdown", "returned"} /\ Committed) =>
          \A s \in Units : ~Queued(s)

C28_LateUnitsSkip == [][C28_LateStep]_vars /\ []C28_LateUnitsDoNothing

\* a race won by one unit while another, able to win as well, started after
\* the commit and returned at its entry test
C28_Witness ==
    /\ Won
    /\ \E s \in Units :
          /\ upc[s] = "done" /\ calls[s] = 0
          /\ WouldValidate(s)

\* ---- claims about the return of the concurrent race
\* C29: when the concurrent race has returned, every unit has ended or was
\* cancelled, an ended unit that was invoked has handed its result to its
\* wrapper, no unit is at the lock, and from then on no unit moves and no
\* result, line or slot content changes.
C29_Quiescent ==
    (concurrent /\ Returned) =>
        /\ \A s \in Units :
              /\ upc[s] \in {"done", "cancelled"}
              /\ calls[s] >= 1 => ret[s].kind \in {"return", "raise"}
              /\ calls[s] = 0 => SkippedUnit(s)
        /\ success_lock = 0
        /\ Busy = {} /\ Pending = {}

C29_AfterReturnStep ==
    (concurrent /\ Returned) =>
        UNCHANGED <<upc, ret, calls, attempt, success_result, diag, returned>>

C29_NoUnitOutlivesRace == []C29_Quiescent /\ [][C29_AfterReturnStep]_vars

\* a race that returned its winner after the loser, still retrying when the
\* winner committed, had run its retry loop to the end
C29_Witness ==
    /\ concurrent /\ Won
    /\ \E s \in Units :
          /\ late[s] > 0
          /\ upc[s] = "done"
          /\ ret[s].kind = "raise"

\* ---- claims about persistence
\* C30: save_content is called at most once in a race, only if save_to_file
\* is set, only in the step that returns valid content and with exactly that
\* content, never in a race that returns None; in the concurrent race it is
\* called when every unit has ended or was cancelled and the lock is free;
\* whether the file was written or not, the race returns the same content.
C30_SaveStep ==
    saved' # saved =>
        /\ save_to_file
        /\ saved = <<>>
        /\ ~Returned /\ Returned'
        /\ saved' = <<returned'>>
        /\ is_valid_content(returned')
        /\ concurrent =>
              /\ \A s \in Units : upc[s] \in {"done", "cancelled"}
              /\ success_lock = 0
              /\ returned' = success_result.content
              /\ success_result' = success_result

C30_SavedIsReturned ==
    /\ Len(saved) <= 1
    /\ Len(written) <= Len(saved)
    /\ saved # <<>> => (Won /\ saved = <<returned>> /\ save_to_file)
    /\ written # <<>> => written = saved
    /\ Exhausted => (saved = <<>> /\ written = <<>>)
    /\ (Won /\ save_to_file) => saved = <<returned>>
    /\ Won => \E s \in Units : HasValidResult(s) /\ returned = ret[s].val

C30_SaveOnceOnWin == [][C30_SaveStep]_vars /\ []C30_SavedIsReturned

\* the concurrent race returns its winner's content although the save failed
C30_Witness ==
    /\ concurrent /\ Won
    /\ saved = <<returned>>
    /\ written = <<>>

C32_Terminates ==
    (\A s \in Units : methods[s].final # "hang") ~> Returned

C32_Bounded ==
    \A s \in Units :
        /\ calls[s] <= max_retries + 1
        /\ attempt[s] <= max_retries
        /\ calls[s] >= 1 => attempt[s] = calls[s] - 1

C32_OneUnitStep ==
    \A s \in Units :
        /\ (~InRetryLoop(s) /\ InRetryLoop(s)') =>
              (calls[s] = 0 /\ calls'[s] = 1 /\ ret[s].kind = "none")
        /\ upc[s] \in {"done", "cancelled"} => upc'[s] = upc[s]
        /\ attempt'[s] # attempt[s] =>
              (upc[s] = "sleep" /\ attempt'[s] = attempt[s] + 1)

C32_RaceTerminates ==
    C32_Terminates /\ []C32_Bounded /\ [][C32_OneUnitStep]_vars

\* a race that returned after one of its strategies had failed on every one
\* of its max_retries + 1 attempts, with max_retries sleeps between them
C32_Witness ==
    /\ Returned
    /\ \E s \in Units :
          /\ calls[s] = max_retries + 1
          /\ attempt[s] = max_retries
          /\ max_retries >= 1
          /\ ret[s].kind = "raise"

\* ---- claims about the target
\* the target is None or the empty string
EmptyTarget == ~url.given \/ url.text = <<>>

\* the target, stripped and with https:// before it unless it begins with
\* http:// or https://, has nothing between the scheme and the first "/",
\* "?" or "#", or nothing after the scheme at all
NoHost ==
    /\ ~EmptyTarget
    /\ LET stripped == strip(url.text)
           rest == IF startswith(stripped, HTTPS)
                   THEN SubSeq(stripped, Len(HTTPS) + 1, Len(stripped))
                   ELSE IF startswith(stripped, HTTP)
                   THEN SubSeq(stripped, Len(HTTP) + 1, Len(stripped))
                   ELSE stripped
       IN rest = <<>> \/ rest[1] \in {"/", "?", "#"}

\* the claim's two cases, and whatever else makes the validator raise
\* ValueError (a host with one square bracket and not the other)
TargetRejected == EmptyTarget \/ NoHost \/ ~validate_and_format_url(url).ok

\* C33: a call of scrape_website with an empty target, or with a target
\* that has no host once the scheme is before it, returns None in its first
\* step, and in that race no unit is ever submitted or started, no strategy
\* is invoked, no retry loop sleeps, no header is rewritten, no browser is
\* opened, and save_content is not called.
C33_RejectStep ==
    (TargetRejected /\ cpc = "idle") =>
        /\ cpc' = "returned"
        /\ returned' = None
        /\ UNCHANGED <<upc, calls, attempt, delay, ret, success_result, success_lock,
                       yielded, diag, saved, written, late, browser, headers>>

C33_NothingLaunched ==
    TargetRejected =>
        /\ cpc \in {"idle", "returned"}
        /\ returned = None
        /\ \A s \in Units :
              /\ upc[s] = "new"
              /\ calls[s] = 0 /\ attempt[s] = 0 /\ delay[s] = 0
              /\ ret[s].kind = "none"
              /\ headers[s] = {} /\ browser[s] = 0
        /\ saved = <<>> /\ written = <<>>
        /\ ~Committed

C33_RejectedTargetReturnsNothing ==
    [][C33_RejectStep]_vars /\ []C33_NothingLaunched

\* scrape_website, given a file name and a StrategySet with a working
\* strategy, has returned None for a target of blanks around a bare path
C33_Witness ==
    /\ Exhausted
    /\ NoHost
    /\ url.text # strip(url.text)
    /\ ~startswith(strip(url.text), HTTP) /\ ~startswith(strip(url.text), HTTPS)
    /\ save_to_file
    /\ \E s \in Units : ImmediatelyValid(s)

\* ---- claims about shared state
\* what belongs to the unit of strategy s alone: its position, its retry
\* loop's variables, its result, its line, its strategy's browsers and header
Private(s) ==
    <<upc[s], attempt[s], calls[s], delay[s], ret[s], diag[s], late[s],
      browser[s], headers[s]>>

\* C34: a step changes what belongs to at most one of the units that are
\* active at the same time, and in the concurrent race such a step changes
\* nothing of the coordinator's, so units meet only in the outcome slot and
\* its lock; the User-Agent header of a strategy is rewritten by one unit
\* only, and a unit rewrites the header of one strategy only; no step
\* changes the target or the StrategySet.
C34_FrameStep ==
    /\ url' = url /\ methods' = methods
    /\ max_retries' = max_retries /\ concurrent' = concurrent
    /\ \A s \in Busy : \A t \in Busy \ {s} :
          ~(Private(s)' # Private(s) /\ Private(t)' # Private(t))
    /\ (concurrent /\ \E s \in Busy : Private(s)' # Private(s)) =>
          UNCHANGED <<cpc, yielded, saved, written, returned>>
    /\ \A s \in Units : headers'[s] # headers[s] =>
          (s \in Busy \/ ~concurrent) /\ upc[s] = "attempt"

C34_OneUnitPerStrategy ==
    \A s \in Units :
        /\ Cardinality(headers[s]) <= 1
        /\ \A t \in Units \ {s} : headers[s] \cap headers[t] = {}
        /\ (calls[s] >= 1 /\ upc[s] # "attempt") => headers[s] # {}

====
